---- MODULE Spec2Model ----
(***************************************************************************)
(* Configuration and identity resolution of the chromatic CLI:             *)
(*   parseArgs           the flag table handed to meow                      *)
(*   getOptions          flags, env, manifest -> resolved options / error  *)
(*   getCommitAndBranch  git queries, env, overrides -> commit identity    *)
(*                                                                         *)
(* JavaScript values are tagged records.  A JavaScript string is a         *)
(* sequence of atoms (substrings that the code never looks inside), so     *)
(* that split, startsWith, endsWith, the regular expressions and string    *)
(* concatenation are computed on the text and not assumed.                 *)
(***************************************************************************)
EXTENDS Naturals, Sequences, FiniteSets

VARIABLES
    pc,          \* position of the run
    flags,       \* the flag map built by parseArgs
    argc,        \* number of command-line options parsed so far
    env,         \* process environment (and the env-ci detector's answers)
    envc,        \* number of environment entries that are defined
    log,         \* TRUE iff a logging sink is supplied
    packageJson, \* the manifest: [hasScripts, scripts]
    result,      \* outcome of getOptions
    overrides,   \* { branchName, patchBaseRef } handed to getCommitAndBranch
    git,         \* answers of the git queries issued so far
    commit,      \* getCommitAndBranch: let commit
    branch,      \* getCommitAndBranch: let branch
    slug,        \* getCommitAndBranch: let slug
    logCalls,    \* calls made on the logging sink by getCommitAndBranch
    identity     \* outcome of getCommitAndBranch

vars == <<pc, flags, argc, env, envc, log, packageJson, result, overrides,
          git, commit, branch, slug, logCalls, identity>>

\* ------------------------------------------------------------------ bounds
\* at most MaxArgs options on the command line
MaxArgs == 3
\* at most MaxEnv of the environment entries read by getCommitAndBranch are defined
MaxEnv == 3

\* ------------------------------------------------------- JavaScript values
Undef == [t |-> "undefined"]
Null == [t |-> "null"]
Bool(b) == [t |-> "boolean", v |-> b]
Str(s) == [t |-> "string", v |-> s]
S(a) == [t |-> "string", v |-> <<a>>]
Arr(s) == [t |-> "array", v |-> s]
Obj(r) == [t |-> "object", v |-> r]
EmptyStr == [t |-> "string", v |-> <<>>]

\* ToBoolean
Truthy(x) ==
    CASE x.t = "undefined" -> FALSE
      [] x.t = "null" -> FALSE
      [] x.t = "boolean" -> x.v
      [] x.t = "string" -> x.v # <<>>
      [] OTHER -> TRUE

\* a || b
Or(a, b) == IF Truthy(a) THEN a ELSE b
\* a && b
And(a, b) == IF Truthy(a) THEN b ELSE a

IsString(x) == x.t = "string"

\* String.prototype.endsWith / startsWith on atom sequences
EndsWith(s, suffix) ==
    /\ Len(s) >= Len(suffix)
    /\ SubSeq(s, Len(s) - Len(suffix) + 1, Len(s)) = suffix

StartsWith(s, prefix) ==
    /\ Len(s) >= Len(prefix)
    /\ SubSeq(s, 1, Len(prefix)) = prefix

\* index of the first element of s satisfying membership in set T, or 0
FirstIn(s, T) ==
    IF \E i \in 1..Len(s) : s[i] \in T
    THEN CHOOSE i \in 1..Len(s) : s[i] \in T /\ \A j \in 1..(i - 1) : s[j] \notin T
    ELSE 0

\* String.prototype.split(sep) for a one-atom separator
RECURSIVE Split(_, _)
Split(s, sep) ==
    LET i == FirstIn(s, {sep})
    IN IF i = 0 THEN <<s>>
       ELSE <<SubSeq(s, 1, i - 1)>> \o Split(SubSeq(s, i + 1, Len(s)), sep)

NonEmpty(x) == x # <<>>

\* ------------------------------------------------------------- parseArgs
\* flags declared isMultiple: meow collects every occurrence into an array
MultiFlags == {"projectToken", "appCode", "outputDir", "storybookBuildDir",
               "untraced", "externals"}

\* the flags of the meow table that getOptions branches on (the remaining
\* flags are copied into the result unread and are left out)
SingleFlags == {"buildScriptName", "only", "onlyChanged", "patchBuild",
                "debug", "junitReport", "exitOnceUploaded", "doNotStart",
                "exec", "scriptName", "storybookPort", "storybookUrl",
                "storybookHttps"}

FlagNames == MultiFlags \cup SingleFlags

\* external Storybook URLs tried for --storybook-url
UrlValues ==
    { Str(<<"http", "://", "example.com", "/", "sb">>),
      Str(<<"http", "://", "example.com">>),
      Str(<<"http", "://", "example.com", "/", "sb", "/">>),
      Str(<<"http", "://", "example.com", "/", "iframe.html">>),
      Str(<<"http", "://", "example.com", "/", "my", "iframe.html">>),
      Str(<<"https", "://", "example.com", "/", "sb", "?x=1">>),
      Str(<<"?x=1">>) }

\* the values an option can be given on the command line
FlagValues(f) ==
    CASE f = "projectToken" -> {EmptyStr, S("tok1"), S("tok2")}
      [] f = "appCode" -> {S("code")}
      [] f = "outputDir" -> {S("out1"), S("out2")}
      [] f = "storybookBuildDir" -> {S("dir1"), S("dir2")}
      [] f = "untraced" -> {EmptyStr, S("a.js"), S("b.js")}
      [] f = "externals" -> {EmptyStr, S("x.css")}
      [] f = "buildScriptName" -> {EmptyStr, S("bsb")}
      [] f = "only" -> {Str(<<"a", "/", "b">>), Str(<<"*", "/", "*">>), Str(<<"a", "b">>)}
      [] f = "onlyChanged" -> {EmptyStr, S("main")}
      [] f = "patchBuild" -> {Str(<<"a", "...", "b">>), Str(<<"a", "...", "a">>),
                              Str(<<"a", "...">>)}
      [] f = "debug" -> {Bool(TRUE)}
      [] f = "junitReport" -> {EmptyStr, Str(<<"out", ".xml">>), Str(<<"out", ".json">>)}
      [] f = "exitOnceUploaded" -> {EmptyStr}
      [] f = "doNotStart" -> {Bool(TRUE)}
      [] f = "exec" -> {S("cmd")}
      [] f = "scriptName" -> {EmptyStr, S("start")}
      [] f = "storybookPort" -> {S("6006")}
      [] f = "storybookUrl" -> UrlValues
      [] f = "storybookHttps" -> {Bool(TRUE)}

\* meow's result for an empty command line: [] for isMultiple flags,
\* undefined for the others (booleanDefault: undefined)
NoFlags == [f \in FlagNames |-> IF f \in MultiFlags THEN Arr(<<>>) ELSE Undef]

\* one more option on the command line
parseArgs(fl, f, v) ==
    IF f \in MultiFlags
    THEN [fl EXCEPT ![f] = Arr(fl[f].v \o <<v>>)]
    ELSE [fl EXCEPT ![f] = v]

\* ------------------------------------------------------------ manifests
\* scripts are <<name, command>> pairs in insertion order; a command is the
\* sequence of its words, each word a string (a sequence of atoms)
Manifests ==
    { [hasScripts |-> FALSE, scripts |-> <<>>],
      [hasScripts |-> TRUE,
       scripts |-> << <<"storybook",
                        << <<"start-storybook">>, <<"-p">>, <<"9009">> >> >> >>],
      [hasScripts |-> TRUE,
       scripts |-> << <<"build-storybook", << <<"build-storybook">> >> >>,
                      <<"storybook", << <<"start-storybook">> >> >> >>],
      [hasScripts |-> TRUE,
       scripts |-> << <<"test", << <<"jest">> >> >>,
                      <<"bsb", << <<"build-storybook">>, <<"-o">>, <<"out">> >> >>,
                      <<"start", << <<"start-storybook">>, <<"--https">>,
                                    <<"--ssl-cert">>, <<"~", "/c.pem">>,
                                    <<"--port">>, <<"7007">> >> >> >>] }

\* packageJson.scripts[name]: the command (a sequence of words) or undefined
HasScript(p, name) == \E i \in 1..Len(p.scripts) : p.scripts[i][1] = name

Script(p, name) ==
    p.scripts[CHOOSE i \in 1..Len(p.scripts) : p.scripts[i][1] = name][2]

\* getStorybookConfiguration(storybookScript, shortName, longName): the word
\* after longName, else after shortName; null when neither occurs, undefined
\* when the name is the last word ("" stands for an omitted longName)
getStorybookConfiguration(storybookScript, shortName, longName) ==
    LET parts == storybookScript
        iLong == IF longName = "" THEN 0 ELSE FirstIn(parts, {<<longName>>})
        index == IF iLong # 0 THEN iLong ELSE FirstIn(parts, {<<shortName>>})
    IN IF index = 0 THEN Null
       ELSE IF index + 1 > Len(parts) THEN Undef
       ELSE Str(parts[index + 1])

\* ----------------------------------------------------------- getOptions
\* mutant: the first occurrence is taken
takeLast_First(input) ==
    IF input.t = "array"
    THEN (IF Len(input.v) = 0 THEN Undef ELSE input.v[1])
    ELSE input

\* line 21: the last occurrence of a flag that may be repeated
takeLast(input) ==
    IF input.t = "array"
    THEN (IF Len(input.v) = 0 THEN Undef ELSE input.v[Len(input.v)])
    ELSE input

ensureArray(input) == IF input.t = "array" THEN input ELSE Arr(<<input>>)

\* process.env.HOME
Home == "/home/user"

resolveHomeDir(filepath) ==
    IF Truthy(filepath) /\ StartsWith(filepath.v, <<"~">>)
    THEN Str(<<Home>> \o Tail(filepath.v))
    ELSE filepath

trueIfSet(value) == IF value.t = "string" /\ value.v = <<>> THEN Bool(TRUE) ELSE value

undefinedIfEmpty(array) ==
    LET filtered == SelectSeq(array.v, Truthy)
    IN IF Len(filtered) # 0 THEN Arr(filtered) ELSE Undef

\* (flags.patchBuild || '').split('...').filter(Boolean)
patchRefs(fl) ==
    SelectSeq(Split(Or(fl.patchBuild, EmptyStr).v, "..."), NonEmpty)

\* the options object of getOptions (fields that are only copied are left
\* out); useTunnel and url are absent until a return statement adds them
options(fl, e) ==
    [ projectToken |-> Or(takeLast(Or(fl.projectToken, fl.appCode)),
                          e.CHROMATIC_PROJECT_TOKEN),
      only |-> fl.only,
      onlyChanged |-> trueIfSet(fl.onlyChanged),
      untraced |-> undefinedIfEmpty(ensureArray(fl.untraced)),
      externals |-> undefinedIfEmpty(ensureArray(fl.externals)),
      verbose |-> Bool(Truthy(fl.debug)),
      junitReport |-> trueIfSet(fl.junitReport),
      exitOnceUploaded |-> trueIfSet(fl.exitOnceUploaded),
      buildScriptName |-> fl.buildScriptName,
      outputDir |-> takeLast(fl.outputDir),
      scriptName |-> trueIfSet(fl.scriptName),
      exec |-> fl.exec,
      noStart |-> Bool(Truthy(fl.doNotStart)),
      https |-> fl.storybookHttps,
      port |-> fl.storybookPort,
      storybookBuildDir |-> takeLast(fl.storybookBuildDir),
      storybookUrl |-> fl.storybookUrl,
      patchHeadRef |-> IF Len(patchRefs(fl)) >= 1 THEN Str(patchRefs(fl)[1]) ELSE Undef,
      patchBaseRef |-> IF Len(patchRefs(fl)) >= 2 THEN Str(patchRefs(fl)[2]) ELSE Undef,
      useTunnel |-> Undef,
      url |-> Undef ]

\* outcomes of a resolver
NoResult == [kind |-> "none", error |-> "", args |-> <<>>, value |-> Undef, logs |-> <<>>]
Thrown(err, a, lg) ==
    [kind |-> "thrown", error |-> err, args |-> a, value |-> Undef, logs |-> lg]
Returned(v, lg) ==
    [kind |-> "returned", error |-> "", args |-> <<>>, value |-> v, logs |-> lg]

\* /[\w*]\/[\w*]/.test(only): the atoms of an `only` value are characters
WordOrStar == {"a", "b", "*"}
onlyRegExp(s) ==
    \E i \in 1..Len(s) :
        /\ i + 2 <= Len(s)
        /\ s[i] \in WordOrStar
        /\ s[i + 1] = "/"
        /\ s[i + 2] \in WordOrStar

\* path.extname: the last atom when it is an extension that follows a name
Extensions == {".xml", ".json"}
extname(s) ==
    IF Len(s) >= 2 /\ s[Len(s)] \in Extensions THEN <<s[Len(s)]>> ELSE <<>>

\* const singularOpts: option name -> flag name, in key order
singularOpts ==
    << <<"buildScriptName", "--build-script-name">>,
       <<"scriptName", "--script-name">>,
       <<"exec", "--exec">>,
       <<"storybookUrl", "--storybook-url">>,
       <<"storybookBuildDir", "--storybook-build-dir">> >>

IsFound(o, pair) == Truthy(o[pair[1]])

\* foundSingularOpts.map((key) => singularOpts[key])
foundSingularOpts(o) ==
    LET found == SelectSeq(singularOpts, LAMBDA pair : IsFound(o, pair))
    IN [i \in 1..Len(found) |-> found[i][2]]

\* legacy url.parse: protocol and host of a slashed scheme, pathname, search.
\* pathname defaults to "/" after a host and stays null without one
Schemes == {"http", "https"}
SearchAtoms == {"?x=1"}

parse(u) ==
    LET slashed == Len(u) >= 3 /\ u[1] \in Schemes /\ u[2] = "://"
        afterProto == IF slashed THEN SubSeq(u, 3, Len(u)) ELSE u
        h == FirstIn(afterProto, {"/"} \cup SearchAtoms)
        host == IF ~slashed THEN <<>>
                ELSE IF h = 0 THEN afterProto ELSE SubSeq(afterProto, 1, h - 1)
        rest == IF ~slashed THEN afterProto
                ELSE IF h = 0 THEN <<>> ELSE SubSeq(afterProto, h, Len(afterProto))
        q == FirstIn(rest, SearchAtoms)
        path == IF q = 0 THEN rest ELSE SubSeq(rest, 1, q - 1)
        search == IF q = 0 THEN <<>> ELSE SubSeq(rest, q, Len(rest))
    IN [ protocol |-> IF slashed THEN SubSeq(u, 1, 2) ELSE <<>>,
         host |-> host,
         pathname |-> IF path # <<>> THEN Str(path)
                      ELSE IF slashed /\ host # <<>> THEN S("/") ELSE Null,
         search |-> search ]

\* Url.prototype.format
format(parsedUrl) ==
    Str(parsedUrl.protocol \o parsedUrl.host \o parsedUrl.pathname.v \o parsedUrl.search)

suffix == <<"iframe.html">>

\* mutant: the suffix is appended only to a path that ends in "/"
appendSuffix_OnlyAfterSlash(pathname) ==
    IF EndsWith(pathname, <<"/">>) THEN pathname \o suffix ELSE pathname

\* lines 218-223: the pathname, ending in the suffix
appendSuffix(pathname) ==
    IF EndsWith(pathname, suffix) THEN pathname
    ELSE (IF EndsWith(pathname, <<"/">>) THEN pathname ELSE pathname \o <<"/">>) \o suffix

\* lines 216-232: parse the URL, append the suffix to its path and return
finalizeUrl(o, noStart, https, storybookUrl, scriptName, logs) ==
    LET parsedUrl == parse(storybookUrl.v)
        p1 == appendSuffix(parsedUrl.pathname.v)
    IN IF parsedUrl.pathname = Null
       THEN Thrown("TypeError", <<>>, logs)
       ELSE Returned([o EXCEPT !.noStart = Bool(noStart),
                               !.useTunnel = Bool(TRUE),
                               !.https = https,
                               !.url = format([parsedUrl EXCEPT !.pathname = Str(p1)]),
                               !.scriptName = scriptName],
                     logs)

\* v.startsWith('build-storybook') on a script's command
IsBuildCommand(pair) == StartsWith(pair[2][1], <<"build-storybook">>)

\* lines 160-177: build Storybook instead of starting it
buildMode(o, p, logs) ==
    LET named == IsString(o.buildScriptName)
        entries == SelectSeq(p.scripts, IsBuildCommand)
        buildScriptName ==
            IF named THEN o.buildScriptName
            ELSE IF HasScript(p, "build-storybook") THEN S("build-storybook")
            ELSE IF Len(entries) > 0 THEN S(entries[1][1])
            ELSE S("build-storybook")
    IN IF Truthy(o.storybookBuildDir)
       THEN Returned([o EXCEPT !.noStart = Bool(TRUE), !.useTunnel = Bool(FALSE)], logs)
       ELSE IF ~named /\ ~p.hasScripts
       THEN Thrown("TypeError", <<>>, logs)
       ELSE IF /\ p.hasScripts
               /\ Truthy(buildScriptName)
               /\ HasScript(p, buildScriptName.v[1])
       THEN Returned([o EXCEPT !.noStart = Bool(TRUE),
                               !.useTunnel = Bool(FALSE),
                               !.buildScriptName = buildScriptName],
                     logs)
       ELSE Thrown("missingBuildScriptName", <<buildScriptName>>, logs)

\* lines 182-232: start Storybook on localhost, or use the external URL
serverMode(o, noStart, lg, p, logs) ==
    LET https0 == And(o.https, Obj([cert |-> Undef, key |-> Undef, ca |-> Undef]))
        lookup == ~Truthy(o.exec) /\ (~Truthy(o.port) \/ ~noStart)
        scriptName == IF ~lookup THEN o.scriptName
                      ELSE IF IsString(o.scriptName) THEN o.scriptName
                      ELSE S("storybook")
        found == lookup /\ p.hasScripts /\ HasScript(p, scriptName.v[1])
        storybookScript == Script(p, scriptName.v[1])
        https == IF ~found THEN https0
                 ELSE Or(https0,
                         And(getStorybookConfiguration(storybookScript, "--https", ""),
                             Obj([cert |-> resolveHomeDir(getStorybookConfiguration(
                                               storybookScript, "--ssl-cert", "")),
                                  key |-> resolveHomeDir(getStorybookConfiguration(
                                               storybookScript, "--ssl-key", "")),
                                  ca |-> resolveHomeDir(getStorybookConfiguration(
                                               storybookScript, "--ssl-ca", ""))])))
        port == IF ~found THEN o.port
                ELSE Or(o.port, getStorybookConfiguration(storybookScript, "-p", "--port"))
        logs1 == IF lookup /\ lg THEN logs \o <<"info">> ELSE logs
        localhost == Str(<<IF Truthy(https) THEN "https" ELSE "http", "://", "localhost", ":">>
                         \o port.v)
    IN IF Truthy(o.storybookUrl)
       THEN finalizeUrl(o, noStart, https0, o.storybookUrl, o.scriptName, logs)
       ELSE IF Truthy(o.exec) /\ ~Truthy(o.port)
       THEN Thrown("missingStorybookPort", <<>>, logs)
       ELSE IF lookup /\ ~found
       THEN Thrown("missingScriptName", <<scriptName>>, logs)
       ELSE IF lookup /\ ~Truthy(port)
       THEN Thrown("unknownStorybookPort", <<scriptName>>, logs)
       ELSE finalizeUrl(o, noStart, https, localhost, scriptName, logs1)

\* mutant: an external URL does not force noStart
forcedNoStart_NotByUrl(o) == o.noStart.v

\* lines 139-142: no need to start Storybook when it is fetched from a URL
forcedNoStart(o) == Truthy(o.storybookUrl) \/ o.noStart.v

\* mutant: a given script name does not take the run out of build mode
isBuildMode_IgnoresScriptName(o, noStart) ==
    /\ ~Truthy(o.exec)
    /\ ~noStart
    /\ ~Truthy(o.storybookUrl)
    /\ ~Truthy(o.port)

\* line 161: nothing says that a Storybook is, or is to be, running
isBuildMode(o, noStart) ==
    /\ ~Truthy(o.scriptName)
    /\ ~Truthy(o.exec)
    /\ ~noStart
    /\ ~Truthy(o.storybookUrl)
    /\ ~Truthy(o.port)

\* mutant: onlyChanged is let through to the server modes
requiresStaticBuild_Never(o) == FALSE

\* line 180: TurboSnap requires a static build
requiresStaticBuild(o) == Truthy(o.onlyChanged)

\* lines 139-180: the checks after the dependent options, then the run mode
runMode(o, lg, p, logs) ==
    LET noStart == forcedNoStart(o)
    IN IF noStart /\ Truthy(o.exitOnceUploaded)
       THEN Thrown("invalidExitOnceUploaded", <<>>, logs)
       ELSE IF Truthy(o.scriptName) /\ Truthy(o.exitOnceUploaded)
       THEN Thrown("invalidExitOnceUploaded", <<>>, logs)
       ELSE IF Truthy(o.junitReport) /\ Truthy(o.exitOnceUploaded)
       THEN Thrown("incompatibleOptions", <<"--junit-report", "--exit-once-uploaded">>, logs)
       ELSE IF IsString(o.junitReport) /\ extname(o.junitReport.v) # <<".xml">>
       THEN Thrown("invalidReportPath", <<>>, logs)
       ELSE IF isBuildMode(o, noStart)
       THEN buildMode(o, p, logs)
       ELSE IF requiresStaticBuild(o)
       THEN Thrown("invalidOnlyChanged", <<>>, logs)
       ELSE serverMode(o, noStart, lg, p, logs)

\* mutant: two singular options are let through
tooManySingularOpts_OffByOne(found) == Len(found) > 2

\* line 123: more than one of the singular options is given
tooManySingularOpts(found) == Len(found) > 1

\* mutant: both checks look at untraced
missingOnlyChanged_AlwaysUntraced(o, name) == Truthy(o.untraced) /\ ~Truthy(o.onlyChanged)

\* lines 131, 135: an option that needs --only-changed is given without it
missingOnlyChanged(o, name) == Truthy(o[name]) /\ ~Truthy(o.onlyChanged)

\* getOptions({ argv, env, flags, log, packageJson }); lg: a log is supplied
getOptions(fl, e, lg, p) ==
    LET o == options(fl, e)
        logs == IF Truthy(fl.debug) THEN <<"setLevel", "setInteractive">> ELSE <<>>
    IN IF Truthy(fl.debug) /\ ~lg
       THEN Thrown("TypeError", <<>>, <<>>)
       ELSE IF ~Truthy(o.projectToken)
       THEN Thrown("missingProjectToken", <<>>, logs)
       ELSE IF Truthy(fl.patchBuild) /\ (~Truthy(o.patchHeadRef) \/ ~Truthy(o.patchBaseRef))
       THEN Thrown("invalidPatchBuild", <<>>, logs)
       ELSE IF Truthy(fl.patchBuild) /\ o.patchHeadRef = o.patchBaseRef
       THEN Thrown("duplicatePatchBuild", <<>>, logs)
       ELSE IF Truthy(fl.only) /\ ~onlyRegExp(fl.only.v)
       THEN Thrown("invalidOnly", <<>>, logs)
       ELSE IF tooManySingularOpts(foundSingularOpts(o))
       THEN Thrown("invalidSingularOptions", foundSingularOpts(o), logs)
       ELSE IF Truthy(o.only) /\ Truthy(o.onlyChanged)
       THEN Thrown("invalidSingularOptions", <<"--only", "--only-changed">>, logs)
       ELSE IF missingOnlyChanged(o, "untraced")
       THEN Thrown("dependentOption", <<"--untraced", "--only-changed">>, logs)
       ELSE IF missingOnlyChanged(o, "externals")
       THEN Thrown("dependentOption", <<"--externals", "--only-changed">>, logs)
       ELSE runMode(o, lg, p, logs)

\* ------------------------------------------------- the run of getOptions
\* the environment entries read by getCommitAndBranch; the envCi.* entries
\* are the answers of the env-ci detector, which it derives from the
\* environment
CiEnvNames ==
    {"CHROMATIC_SHA", "CHROMATIC_BRANCH", "CHROMATIC_SLUG",
     "TRAVIS_EVENT_TYPE", "TRAVIS_PULL_REQUEST_SLUG", "TRAVIS_REPO_SLUG",
     "TRAVIS_PULL_REQUEST_SHA", "TRAVIS_PULL_REQUEST_BRANCH",
     "GITHUB_EVENT_NAME", "GITHUB_REPOSITORY", "GITHUB_BASE_REF",
     "GITHUB_HEAD_REF", "GITHUB_SHA",
     "HEAD", "GERRIT_BRANCH", "GITHUB_REF", "CI_BRANCH",
     "envCi.prBranch", "envCi.branch", "envCi.commit", "envCi.slug"}

EnvNames == {"CHROMATIC_PROJECT_TOKEN"} \cup CiEnvNames

NoEnv == [n \in EnvNames |-> Undef]

\* the values an environment entry is given
EnvValues(n) ==
    CASE n = "CHROMATIC_SHA" -> {S("csha")}
      [] n = "CHROMATIC_BRANCH" -> {S("cbranch"), S("HEAD"), Str(<<"origin/", "cbranch">>)}
      [] n = "CHROMATIC_SLUG" -> {S("c/slug")}
      [] n = "TRAVIS_EVENT_TYPE" -> {S("pull_request")}
      [] n = "TRAVIS_PULL_REQUEST_SLUG" -> {S("fork/repo")}
      [] n = "TRAVIS_REPO_SLUG" -> {S("fork/repo")}
      [] n = "TRAVIS_PULL_REQUEST_SHA" -> {S("tsha")}
      [] n = "TRAVIS_PULL_REQUEST_BRANCH" -> {S("tbranch"), Str(<<"origin/", "tbranch">>)}
      [] n = "GITHUB_EVENT_NAME" -> {S("pull_request")}
      [] n = "GITHUB_REPOSITORY" -> {S("gh/repo")}
      [] n = "GITHUB_BASE_REF" -> {S("ghhead"), S("ghbase")}
      [] n = "GITHUB_HEAD_REF" -> {S("ghhead"), S("HEAD")}
      [] n = "GITHUB_SHA" -> {S("ghsha")}
      [] n = "HEAD" -> {S("netlify"), S("HEAD")}
      [] n = "GERRIT_BRANCH" -> {S("gerrit")}
      [] n = "GITHUB_REF" -> {S("ghref"), Str(<<"origin/", "HEAD">>)}
      [] n = "CI_BRANCH" -> {S("cibranch"), EmptyStr}
      [] n = "envCi.prBranch" -> {S("pr"), S("HEAD")}
      [] n = "envCi.branch" -> {S("ci"), Str(<<"origin/", "ci">>)}
      [] n = "envCi.commit" -> {S("cisha")}
      [] n = "envCi.slug" -> {S("ci/slug")}

\* the git queries: not yet issued, or rejected
Pending == [t |-> "pending"]
Rejected == [t |-> "rejected"]
NoGit == [getCommit |-> Pending, getBranch |-> Pending, hasPreviousCommit |-> Pending,
          lookups |-> <<>>]

Init ==
    /\ pc = "parseArgs"
    /\ flags = NoFlags
    /\ argc = 0
    /\ \E token \in {Undef, S("envtok")} :
           env = [NoEnv EXCEPT !["CHROMATIC_PROJECT_TOKEN"] = token]
    /\ envc = 0
    /\ log \in BOOLEAN
    /\ packageJson \in Manifests
    /\ result = NoResult
    /\ overrides = Undef
    /\ git = NoGit
    /\ commit = Undef
    /\ branch = Undef
    /\ slug = Undef
    /\ logCalls = <<>>
    /\ identity = NoResult

\* meow reads one more option of the command line
ParseArg ==
    /\ pc = "parseArgs"
    /\ argc < MaxArgs
    /\ \E f \in FlagNames :
           /\ f \in SingleFlags => flags[f] = Undef
           /\ \E v \in FlagValues(f) : flags' = parseArgs(flags, f, v)
    /\ argc' = argc + 1
    /\ UNCHANGED <<pc, env, envc, log, packageJson, result, overrides, git,
                   commit, branch, slug, logCalls, identity>>

\* the whole of getOptions, on the parsed flags
GetOptions ==
    /\ pc = "parseArgs"
    /\ result' = getOptions(flags, env, log, packageJson)
    /\ pc' = "resolved"
    /\ UNCHANGED <<flags, argc, env, envc, log, packageJson, overrides, git,
                   commit, branch, slug, logCalls, identity>>

Next == ParseArg \/ GetOptions

Spec == Init /\ [][Next]_vars

\* ------------------------------------------------------ getCommitAndBranch
\* ORIGIN_PREFIX_REGEXP.test(branch) and branch.replace(ORIGIN_PREFIX_REGEXP, '')
ORIGIN_PREFIX == <<"origin/">>
originPrefixTest(b) == StartsWith(b.v, ORIGIN_PREFIX)
originPrefixRemoved(b) == Str(Tail(b.v))

notHead(b) == IF Truthy(b) /\ b # S("HEAD") THEN b ELSE Bool(FALSE)

\* what `git rev-parse --abbrev-ref HEAD` may answer
GitBranches == {S("HEAD"), S("main"), Str(<<"origin/", "main">>)}

\* getCommit(): the commit that is checked out
CurrentCommit == [sha |-> S("cursha"), details |-> TRUE]

\* getCommit(ref) when it resolves: a sha names its own commit, a branch
\* name the commit at its head, no ref the commit that is checked out
ShaRefs == {S("csha"), S("tsha"), S("cisha")}
commitOf(ref) ==
    IF ref = Undef THEN CurrentCommit
    ELSE [sha |-> IF ref \in ShaRefs THEN ref ELSE S("headsha"), details |-> TRUE]

\* mutant: the handler passes the failure of the lookup on
caught_Rethrows(ref, sha, found, lg) ==
    [ threw |-> ~found,
      commit |-> IF found THEN commitOf(ref) ELSE [sha |-> sha, details |-> FALSE],
      calls |-> IF found THEN <<>> ELSE <<"warn", "debug">> ]

\* getCommit(ref).catch(...): found says whether the lookup resolves; the
\* handler warns and substitutes the bare { sha }, and itself throws
\* without a log
caught(ref, sha, found, lg) ==
    [ threw |-> ~found /\ ~lg,
      commit |-> IF found THEN commitOf(ref) ELSE [sha |-> sha, details |-> FALSE],
      calls |-> IF found THEN <<>> ELSE <<"warn", "debug">> ]

isFromEnvVariable(e) == Truthy(And(e.CHROMATIC_SHA, e.CHROMATIC_BRANCH))
isTravisPrBuild(e) == e.TRAVIS_EVENT_TYPE = S("pull_request")
isGitHubPrBuild(e) == e.GITHUB_EVENT_NAME = S("pull_request")

\* mutant: a repository of one commit is let through
noPreviousCommit_Never(answer) == FALSE

\* line 376: the repository has no commit before the current one
noPreviousCommit(answer) == ~Truthy(answer)

\* mutant: GERRIT_BRANCH is consulted before the HEAD of Netlify
fallbackBranch_GerritFirst(e) ==
    Or(notHead(e["envCi.prBranch"]),
    Or(notHead(e["envCi.branch"]),
    Or(notHead(e.GERRIT_BRANCH),
    Or(notHead(e.HEAD),
    Or(notHead(e.GITHUB_REF),
    Or(notHead(e.CI_BRANCH),
       S("HEAD")))))))

\* lines 448-455: the branch of a detached HEAD
fallbackBranch(e) ==
    Or(notHead(e["envCi.prBranch"]),
    Or(notHead(e["envCi.branch"]),
    Or(notHead(e.HEAD),
    Or(notHead(e.GERRIT_BRANCH),
    Or(notHead(e.GITHUB_REF),
    Or(notHead(e.CI_BRANCH),
       S("HEAD")))))))

\* mutant: the prefix is stripped from CHROMATIC_BRANCH as well
stripsOrigin_OfEnvVariable(o, e, b) ==
    /\ ~Truthy(o.branchName)
    /\ originPrefixTest(b)

\* line 466: the origin/ prefix is to be stripped
stripsOrigin(o, e, b) ==
    /\ ~Truthy(o.branchName)
    /\ ~isFromEnvVariable(e)
    /\ originPrefixTest(b)

\* the overrides handed over from the resolved options: branchName is '' when
\* --branch-name is absent, patchBaseRef undefined without --patch-build
Overrides ==
    [ branchName : {EmptyStr, S("HEAD"), S("feat"), Str(<<"origin/", "feat">>)},
      patchBaseRef : {Undef, S("base")} ]

InitCi ==
    /\ pc = "env"
    /\ flags = NoFlags
    /\ argc = 0
    /\ env = NoEnv
    /\ envc = 0
    /\ log \in BOOLEAN
    /\ packageJson = [hasScripts |-> FALSE, scripts |-> <<>>]
    /\ result = NoResult
    /\ overrides \in Overrides
    /\ git = NoGit
    /\ commit = Undef
    /\ branch = Undef
    /\ slug = Undef
    /\ logCalls = <<>>
    /\ identity = NoResult

\* the CI system defines one more entry of the environment
SetEnv ==
    /\ pc = "env"
    /\ envc < MaxEnv
    /\ \E n \in CiEnvNames :
           /\ env[n] = Undef
           /\ \E v \in EnvValues(n) : env' = [env EXCEPT ![n] = v]
    /\ envc' = envc + 1
    /\ UNCHANGED <<pc, flags, argc, log, packageJson, result, overrides, git,
                   commit, branch, slug, logCalls, identity>>

\* the call fails with err
Throw(err, a) ==
    /\ identity' = Thrown(err, a, logCalls')
    /\ pc' = "done"

\* line 350: let commit = await getCommit()
GetCommit ==
    /\ pc = "env"
    /\ \E ok \in BOOLEAN :
           IF ok
           THEN /\ git' = [git EXCEPT !.getCommit = Bool(TRUE)]
                /\ commit' = CurrentCommit
                /\ pc' = "getBranch"
                /\ UNCHANGED <<identity, logCalls>>
           ELSE /\ git' = [git EXCEPT !.getCommit = Rejected]
                /\ UNCHANGED <<commit, logCalls>>
                /\ Throw("gitError", <<>>)
    /\ UNCHANGED <<flags, argc, env, envc, log, packageJson, result, overrides,
                   branch, slug>>

\* line 351: let branch = notHead(branchName) || notHead(patchBaseRef) || (await getBranch())
GetBranch ==
    /\ pc = "getBranch"
    /\ IF Truthy(Or(notHead(overrides.branchName), notHead(overrides.patchBaseRef)))
       THEN /\ branch' = Or(notHead(overrides.branchName), notHead(overrides.patchBaseRef))
            /\ pc' = "hasPreviousCommit"
            /\ UNCHANGED <<git, identity, logCalls>>
       ELSE \E answer \in GitBranches \cup {Rejected} :
                /\ git' = [git EXCEPT !.getBranch = answer]
                /\ IF answer = Rejected
                   THEN /\ UNCHANGED <<branch, logCalls>>
                        /\ Throw("gitError", <<>>)
                   ELSE /\ branch' = answer
                        /\ pc' = "hasPreviousCommit"
                        /\ UNCHANGED <<identity, logCalls>>
    /\ UNCHANGED <<flags, argc, env, envc, log, packageJson, result, overrides,
                   commit, slug>>

\* lines 376-378: if (!(await hasPreviousCommit())) throw gitOneCommit
HasPreviousCommit ==
    /\ pc = "hasPreviousCommit"
    /\ \E answer \in {Bool(TRUE), Bool(FALSE), Rejected} :
           /\ git' = [git EXCEPT !.hasPreviousCommit = answer]
           /\ IF answer = Rejected
              THEN /\ UNCHANGED logCalls
                   /\ Throw("gitError", <<>>)
              ELSE IF noPreviousCommit(answer)
              THEN /\ UNCHANGED logCalls
                   /\ Throw("gitOneCommit", <<>>)
              ELSE /\ pc' = "provider"
                   /\ UNCHANGED <<identity, logCalls>>
    /\ UNCHANGED <<flags, argc, env, envc, log, packageJson, result, overrides,
                   commit, branch, slug>>

\* lines 380-387: CHROMATIC_SHA and CHROMATIC_BRANCH are both set
FromEnvVariable ==
    /\ pc = "provider"
    /\ isFromEnvVariable(env)
    /\ \E found \in BOOLEAN :
           LET c == caught(env.CHROMATIC_SHA, env.CHROMATIC_SHA, found, log)
           IN /\ git' = [git EXCEPT !.lookups = Append(@, <<env.CHROMATIC_SHA, found>>)]
              /\ IF c.threw
                 THEN /\ UNCHANGED <<commit, branch, slug, logCalls>>
                      /\ Throw("TypeError", <<>>)
                 ELSE /\ commit' = c.commit
                      /\ logCalls' = logCalls \o c.calls
                      /\ branch' = env.CHROMATIC_BRANCH
                      /\ slug' = env.CHROMATIC_SLUG
                      /\ pc' = "envCi"
                      /\ UNCHANGED identity
    /\ UNCHANGED <<flags, argc, env, envc, log, packageJson, result, overrides>>

\* lines 388-405: a Travis pull-request build
TravisPrBuild ==
    /\ pc = "provider"
    /\ ~isFromEnvVariable(env)
    /\ isTravisPrBuild(env)
    /\ LET internal == env.TRAVIS_PULL_REQUEST_SLUG = env.TRAVIS_REPO_SLUG
           warned == IF internal THEN logCalls \o <<"warn">> ELSE logCalls
       IN IF internal /\ ~log
          THEN /\ UNCHANGED <<git, commit, branch, slug, logCalls>>
               /\ Throw("TypeError", <<>>)
          ELSE IF ~Truthy(env.TRAVIS_PULL_REQUEST_SHA) \/ ~Truthy(env.TRAVIS_PULL_REQUEST_BRANCH)
          THEN /\ logCalls' = warned
               /\ UNCHANGED <<git, commit, branch, slug>>
               /\ Throw("missingTravisInfo", <<>>)
          ELSE \E found \in BOOLEAN :
                   LET c == caught(env.TRAVIS_PULL_REQUEST_SHA, env.TRAVIS_PULL_REQUEST_SHA,
                                   found, log)
                   IN /\ git' = [git EXCEPT !.lookups =
                                     Append(@, <<env.TRAVIS_PULL_REQUEST_SHA, found>>)]
                      /\ IF c.threw
                         THEN /\ logCalls' = warned
                              /\ UNCHANGED <<commit, branch, slug>>
                              /\ Throw("TypeError", <<>>)
                         ELSE /\ commit' = c.commit
                              /\ logCalls' = warned \o c.calls
                              /\ branch' = env.TRAVIS_PULL_REQUEST_BRANCH
                              /\ slug' = env.TRAVIS_PULL_REQUEST_SLUG
                              /\ pc' = "envCi"
                              /\ UNCHANGED identity
    /\ UNCHANGED <<flags, argc, env, envc, log, packageJson, result, overrides>>

\* lines 406-428: a GitHub pull-request build outside the Chromatic action
GitHubPrBuild ==
    /\ pc = "provider"
    /\ ~isFromEnvVariable(env)
    /\ ~isTravisPrBuild(env)
    /\ isGitHubPrBuild(env)
    /\ IF ~log
       THEN /\ UNCHANGED <<git, commit, branch, slug, logCalls>>
            /\ Throw("TypeError", <<>>)
       ELSE IF ~Truthy(env.GITHUB_HEAD_REF) \/ ~Truthy(env.GITHUB_SHA)
       THEN /\ logCalls' = logCalls \o <<"info">>
            /\ UNCHANGED <<git, commit, branch, slug>>
            /\ Throw("missingGitHubInfo", <<>>)
       ELSE IF env.GITHUB_BASE_REF = env.GITHUB_HEAD_REF
       THEN /\ logCalls' = logCalls \o <<"info">>
            /\ UNCHANGED <<git, commit, branch, slug>>
            /\ Throw("forksUnsupported", <<>>)
       ELSE \E found \in BOOLEAN :
                LET c == caught(env.GITHUB_HEAD_REF, env.GITHUB_SHA, found, log)
                IN /\ git' = [git EXCEPT !.lookups = Append(@, <<env.GITHUB_HEAD_REF, found>>)]
                   /\ commit' = c.commit
                   /\ logCalls' = logCalls \o <<"info">> \o c.calls
                   /\ branch' = env.GITHUB_HEAD_REF
                   /\ slug' = env.GITHUB_REPOSITORY
                   /\ pc' = "envCi"
                   /\ UNCHANGED identity
    /\ UNCHANGED <<flags, argc, env, envc, log, packageJson, result, overrides>>

\* lines 380-428: none of the provider branches applies
NoProvider ==
    /\ pc = "provider"
    /\ ~isFromEnvVariable(env)
    /\ ~isTravisPrBuild(env)
    /\ ~isGitHubPrBuild(env)
    /\ pc' = "envCi"
    /\ UNCHANGED <<flags, argc, env, envc, log, packageJson, result, overrides,
                   git, commit, branch, slug, logCalls, identity>>

\* lines 430-456: envCi(), and the commit and branch of a detached HEAD
DetachedHead ==
    /\ pc = "envCi"
    /\ slug' = Or(slug, env["envCi.slug"])
    /\ IF Truthy(notHead(branch))
       THEN /\ pc' = "finish"
            /\ UNCHANGED <<git, commit, branch, logCalls, identity>>
       ELSE \E found \in BOOLEAN :
                LET c == caught(env["envCi.commit"], env["envCi.commit"], found, log)
                IN /\ git' = [git EXCEPT !.lookups = Append(@, <<env["envCi.commit"], found>>)]
                   /\ IF c.threw
                      THEN /\ UNCHANGED <<commit, branch, logCalls>>
                           /\ Throw("TypeError", <<>>)
                      ELSE /\ commit' = c.commit
                           /\ logCalls' = logCalls \o c.calls
                           /\ branch' = fallbackBranch(env)
                           /\ pc' = "finish"
                           /\ UNCHANGED identity
    /\ UNCHANGED <<flags, argc, env, envc, log, packageJson, result, overrides>>

\* lines 458-492: strip the origin/ prefix, log the git info and return
Finish ==
    /\ pc = "finish"
    /\ LET strip == stripsOrigin(overrides, env, branch)
       IN IF ~log
          THEN /\ UNCHANGED <<branch, logCalls>>
               /\ Throw("TypeError", <<>>)
          ELSE /\ branch' = IF strip THEN originPrefixRemoved(branch) ELSE branch
               /\ logCalls' = logCalls \o (IF strip THEN <<"warn">> ELSE <<>>) \o <<"debug">>
               /\ identity' = Returned([ commit |-> commit.sha,
                                         details |-> commit.details,
                                         branch |-> branch',
                                         slug |-> slug,
                                         isTravisPrBuild |-> Bool(isTravisPrBuild(env)) ],
                                       logCalls')
               /\ pc' = "done"
    /\ UNCHANGED <<flags, argc, env, envc, log, packageJson, result, overrides,
                   git, commit, slug>>

NextCi ==
    \/ SetEnv
    \/ GetCommit
    \/ GetBranch
    \/ HasPreviousCommit
    \/ FromEnvVariable
    \/ TravisPrBuild
    \/ GitHubPrBuild
    \/ NoProvider
    \/ DetachedHead
    \/ Finish

SpecCi == InitCi /\ [][NextCi]_vars

\* ======================================================================
\* Properties of getOptions
\* ======================================================================
Resolved == pc = "resolved"
Succeeded == pc = "resolved" /\ result.kind = "returned"
Failed == pc = "resolved" /\ result.kind = "thrown"

\* what the command line and the environment supply, read off the inputs
TokenGiven ==
    \/ Len(flags.projectToken.v) > 0 /\ flags.projectToken.v[Len(flags.projectToken.v)] # EmptyStr
    \/ env.CHROMATIC_PROJECT_TOKEN # Undef
PatchBuildOk == flags.patchBuild \in {Undef, Str(<<"a", "...", "b">>)}
OnlyOk == flags.only \in {Undef, Str(<<"a", "/", "b">>), Str(<<"*", "/", "*">>)}
LogUsable == log \/ flags.debug = Undef
OnlyChangedGiven == flags.onlyChanged # Undef

Selectors == {"buildScriptName", "scriptName", "exec", "storybookUrl", "storybookBuildDir"}

\* a run-mode selector is set: given with a value (--script-name also bare)
SelectorSet(n) ==
    CASE n = "scriptName" -> flags.scriptName # Undef
      [] n = "storybookBuildDir" -> Len(flags.storybookBuildDir.v) > 0
      [] OTHER -> flags[n] # Undef /\ flags[n] # EmptyStr

SetSelectors == {n \in Selectors : SelectorSet(n)}

FlagOf(n) ==
    CASE n = "buildScriptName" -> "--build-script-name"
      [] n = "scriptName" -> "--script-name"
      [] n = "exec" -> "--exec"
      [] n = "storybookUrl" -> "--storybook-url"
      [] n = "storybookBuildDir" -> "--storybook-build-dir"

\* the selectors of a result that decide its run mode: the build inputs of a
\* build-mode result, the server inputs of a tunnelled one
Authoritative(v) ==
    IF v.useTunnel = Bool(FALSE)
    THEN IF Truthy(v.storybookBuildDir) THEN {"storybookBuildDir"}
         ELSE {n \in {"buildScriptName"} : Truthy(v[n])}
    ELSE {n \in {"scriptName", "exec", "storybookUrl"} : Truthy(v[n])}

\* the path of the result's url ends in the suffix segment
UrlEndsInSuffix(v) ==
    /\ IsString(v.url)
    /\ parse(v.url.v).pathname # Null
    /\ EndsWith(parse(v.url.v).pathname.v, <<"iframe.html">>)

\* C1 as stated: every returned record has exactly one authoritative run mode
\* and a url that is present and ends in iframe.html, build mode included.
C1_AsStated ==
    Succeeded =>
        /\ Cardinality(Authoritative(result.value)) = 1
        /\ UrlEndsInSuffix(result.value)

\* C1 amended: a returned record has at most one authoritative selector, and
\* exactly one unless Storybook is already running (noStart with a port); a
\* tunnelled result (useTunnel = true) carries a url whose path ends in
\* iframe.html; a build-mode result (useTunnel = false) carries no url.
C1_RunModeAndUrl ==
    Succeeded =>
        LET v == result.value
        IN /\ v.useTunnel \in {Bool(TRUE), Bool(FALSE)}
           /\ \/ Cardinality(Authoritative(v)) = 1
              \/ /\ Authoritative(v) = {}
                 /\ v.useTunnel = Bool(TRUE)
                 /\ v.noStart = Bool(TRUE)
                 /\ Truthy(v.port)
           /\ v.useTunnel = Bool(TRUE) => UrlEndsInSuffix(v)
           /\ v.useTunnel = Bool(FALSE) => v.url = Undef /\ v.noStart = Bool(TRUE)

\* a build-mode return through a script found in the manifest
C1_Witness ==
    /\ Succeeded
    /\ result.value.useTunnel = Bool(FALSE)
    /\ Truthy(result.value.buildScriptName)
    /\ result.value.url = Undef

\* the flags named by the mutually-exclusive error are the set selectors
NamesSetSelectors ==
    /\ result.error = "invalidSingularOptions"
    /\ Len(result.args) = Cardinality(SetSelectors)
    /\ {result.args[i] : i \in 1..Len(result.args)} = {FlagOf(n) : n \in SetSelectors}

\* C2 as stated: more than one run-mode selector set always ends in the
\* mutually-exclusive-options error naming exactly the set selectors.
C2_AsStated ==
    (Resolved /\ Cardinality(SetSelectors) > 1) =>
        (result.kind = "thrown" /\ NamesSetSelectors)

\* C2 amended: with more than one selector set getOptions never returns; the
\* error is that of the first failing step: the log calls of --debug without
\* a log, the missing project token, the patch build and `only` checks, and,
\* when none of those fails, the mutually-exclusive-options error naming
\* exactly the set selectors.
C2_SingularAfterEarlierRules ==
    (Resolved /\ Cardinality(SetSelectors) > 1) =>
        /\ result.kind = "thrown"
        /\ (LogUsable /\ TokenGiven /\ PatchBuildOk /\ OnlyOk) => NamesSetSelectors
        /\ ~LogUsable => result.error = "TypeError"
        /\ (LogUsable /\ ~TokenGiven) => result.error = "missingProjectToken"
        /\ (LogUsable /\ TokenGiven /\ ~PatchBuildOk) =>
               result.error \in {"invalidPatchBuild", "duplicatePatchBuild"}
        /\ (LogUsable /\ TokenGiven /\ PatchBuildOk /\ ~OnlyOk) =>
               result.error = "invalidOnly"

\* two selectors set, nothing earlier wrong, and the error names both
C2_Witness ==
    /\ Resolved
    /\ SetSelectors = {"exec", "storybookBuildDir"}
    /\ TokenGiven
    /\ result.error = "invalidSingularOptions"
    /\ result.args = <<"--exec", "--storybook-build-dir">>

\* untraced or externals holds a non-empty value, onlyChanged is not given
HasValue(list) == \E i \in 1..Len(list.v) : list.v[i] # EmptyStr
DependentWithoutOnlyChanged ==
    /\ HasValue(flags.untraced) \/ HasValue(flags.externals)
    /\ ~OnlyChangedGiven

NoUntracedWithoutOnlyChanged ==
    Succeeded =>
        ((Truthy(result.value.untraced) \/ Truthy(result.value.externals))
            => Truthy(result.value.onlyChanged))

\* C3 as stated: untraced or externals without onlyChanged always ends in
\* the dependent-option error, never in a result or another error.
C3_AsStated ==
    /\ (Resolved /\ DependentWithoutOnlyChanged) =>
           (result.kind = "thrown" /\ result.error = "dependentOption")
    /\ NoUntracedWithoutOnlyChanged

\* C3 amended: untraced or externals without onlyChanged never returns; the
\* error is the dependent-option error unless an earlier step fails first
\* (the log calls of --debug without a log, the project token, patch build
\* and `only` checks, more than one run-mode selector); and no result has
\* untraced or externals set while onlyChanged is falsy.
C3_DependentAfterEarlierRules ==
    /\ (Resolved /\ DependentWithoutOnlyChanged) =>
           /\ result.kind = "thrown"
           /\ (/\ LogUsable
               /\ TokenGiven
               /\ PatchBuildOk
               /\ OnlyOk
               /\ Cardinality(SetSelectors) <= 1) <=> result.error = "dependentOption"
           /\ result.error = "dependentOption" =>
                  result.args = << IF HasValue(flags.untraced)
                                   THEN "--untraced" ELSE "--externals",
                                   "--only-changed" >>
    /\ NoUntracedWithoutOnlyChanged

\* externals alone is given and the dependent-option error names it
C3_Witness ==
    /\ Resolved
    /\ HasValue(flags.externals)
    /\ ~HasValue(flags.untraced)
    /\ ~OnlyChangedGiven
    /\ result.error = "dependentOption"
    /\ result.args = <<"--externals", "--only-changed">>

\* the categorized configuration errors of getOptions
ConfigurationErrors ==
    {"missingProjectToken", "invalidPatchBuild", "duplicatePatchBuild", "invalidOnly",
     "invalidSingularOptions", "dependentOption", "invalidExitOnceUploaded",
     "incompatibleOptions", "invalidReportPath", "missingBuildScriptName",
     "invalidOnlyChanged", "missingStorybookPort", "missingScriptName",
     "unknownStorybookPort"}

\* C4: no returned record has `only` and `onlyChanged` both truthy, and with
\* both flags given (onlyChanged possibly as the empty string) getOptions
\* throws a configuration error instead of returning.
C4_OnlyExcludesOnlyChanged ==
    /\ Succeeded => ~(Truthy(result.value.only) /\ Truthy(result.value.onlyChanged))
    /\ (Resolved /\ flags.only # Undef /\ OnlyChangedGiven) =>
           (result.kind = "thrown" /\ result.error \in ConfigurationErrors)

\* a flag that takes the run out of build mode is given
NonBuildFlagGiven ==
    \E f \in {"scriptName", "exec", "doNotStart", "storybookUrl", "storybookPort"} :
        flags[f] # Undef

\* C5: onlyChanged with a flag that takes the run out of build mode always
\* fails; every returned record with onlyChanged truthy is a build-mode
\* result: noStart = true, useTunnel = false, and a static build directory
\* or a build script name that the manifest holds.
C5_OnlyChangedNeedsBuildMode ==
    /\ (Resolved /\ OnlyChangedGiven /\ NonBuildFlagGiven) => result.kind = "thrown"
    /\ (Succeeded /\ Truthy(result.value.onlyChanged)) =>
           LET v == result.value
           IN /\ v.noStart = Bool(TRUE)
              /\ v.useTunnel = Bool(FALSE)
              /\ \/ Truthy(v.storybookBuildDir)
                 \/ /\ IsString(v.buildScriptName)
                    /\ Len(v.buildScriptName.v) = 1
                    /\ HasScript(packageJson, v.buildScriptName.v[1])

\* onlyChanged with a port: the run is refused for want of a static build
C5_Witness ==
    /\ Resolved
    /\ OnlyChangedGiven
    /\ flags.storybookPort # Undef
    /\ result.error = "invalidOnlyChanged"

\* the given URL with iframe.html appended to its path, a "/" first when the
\* path does not end in one; unchanged when the path ends in iframe.html
WithSuffix(u) ==
    LET q == FirstIn(u, SearchAtoms)
        upToPath == IF q = 0 THEN u ELSE SubSeq(u, 1, q - 1)
        search == IF q = 0 THEN <<>> ELSE SubSeq(u, q, Len(u))
    IN IF upToPath[Len(upToPath)] = "iframe.html" THEN u
       ELSE IF upToPath[Len(upToPath)] = "/"
       THEN upToPath \o <<"iframe.html">> \o search
       ELSE upToPath \o <<"/", "iframe.html">> \o search

StorybookOnlyManifest ==
    [hasScripts |-> TRUE,
     scripts |-> << <<"storybook", << <<"start-storybook">>, <<"-p">>, <<"9009">> >> >> >>]

\* no option other than those of F is given
OnlyFlags(F) == \A f \in FlagNames \ F : flags[f] = NoFlags[f]

Localhost9009 == Str(<<"http", "://", "localhost", ":", "9009", "/", "iframe.html">>)

\* C7 as stated: with that manifest, a project token, no port flag and no
\* other mode flag, the port 9009 is inferred and the url is
\* http://localhost:9009/iframe.html.
C7_AsStated ==
    (/\ Resolved
     /\ packageJson = StorybookOnlyManifest
     /\ TokenGiven
     /\ OnlyFlags({"projectToken"})) =>
        (result.kind = "returned" /\ result.value.url = Localhost9009)

\* C7 amended: with that manifest and a project token, a bare --script-name
\* and no port flag or other mode flag make getOptions infer port 9009 from
\* the storybook script and return url http://localhost:9009/iframe.html;
\* with no mode flag at all it selects build mode and throws
\* missingBuildScriptName for build-storybook.
C7_PortInferredFromScript ==
    /\ (/\ Resolved
        /\ packageJson = StorybookOnlyManifest
        /\ TokenGiven
        /\ OnlyFlags({"projectToken", "scriptName"})
        /\ flags.scriptName = EmptyStr) =>
           /\ result.kind = "returned"
           /\ result.value.url = Localhost9009
           /\ result.value.scriptName = S("storybook")
           /\ result.value.useTunnel = Bool(TRUE)
    /\ (/\ Resolved
        /\ packageJson = StorybookOnlyManifest
        /\ TokenGiven
        /\ OnlyFlags({"projectToken"})) =>
           /\ result.kind = "thrown"
           /\ result.error = "missingBuildScriptName"
           /\ result.args = <<S("build-storybook")>>

\* the bare --script-name run that infers the port
C7_Witness ==
    /\ Succeeded
    /\ packageJson = StorybookOnlyManifest
    /\ flags.scriptName = EmptyStr
    /\ flags.storybookPort = Undef
    /\ result.value.url = Localhost9009

\* ======================================================================
\* Properties of getCommitAndBranch
\* ======================================================================
Done == pc = "done"
IdentityReturned == Done /\ identity.kind = "returned"
IdentityThrown == Done /\ identity.kind = "thrown"

\* one of the provider branches of lines 380-428 applies
ProviderSignal ==
    isFromEnvVariable(env) \/ isTravisPrBuild(env) \/ isGitHubPrBuild(env)

\* C8: once hasPreviousCommit has answered false the call has failed with
\* gitOneCommit, whatever the overrides, the environment and the answers of
\* getCommit and getBranch were; nothing is returned, no commit is looked up
\* for a provider and nothing is logged.
C8_OneCommitIsFatal ==
    git.hasPreviousCommit = Bool(FALSE) =>
        /\ IdentityThrown
        /\ identity.error = "gitOneCommit"
        /\ git.lookups = <<>>
        /\ logCalls = <<>>
        /\ slug = Undef

\* a repository of one commit under the Chromatic action, with an override
C8_Witness ==
    /\ git.hasPreviousCommit = Bool(FALSE)
    /\ git.getCommit = Bool(TRUE)
    /\ isFromEnvVariable(env)
    /\ isTravisPrBuild(env)
    /\ overrides.branchName = S("feat")
    /\ identity.error = "gitOneCommit"

\* the six values consulted for a detached HEAD, in the order of the claim
Chain ==
    << env["envCi.prBranch"], env["envCi.branch"], env.HEAD,
       env.GERRIT_BRANCH, env.GITHUB_REF, env.CI_BRANCH >>

\* a chain value that is set, non-empty and not HEAD
Usable(i) ==
    /\ Chain[i].t = "string"
    /\ Chain[i].v # <<>>
    /\ Chain[i].v # <<"HEAD">>

FirstUsable == CHOOSE i \in 1..6 : Usable(i) /\ \A j \in 1..(i - 1) : ~Usable(j)

ChainBranch == IF \E i \in 1..6 : Usable(i) THEN Chain[FirstUsable] ELSE S("HEAD")

\* git reports a detached HEAD, which getBranch is only asked for when no
\* override names a branch, and no provider branch applies
DetachedNoSignal ==
    /\ IdentityReturned
    /\ git.getBranch = S("HEAD")
    /\ ~ProviderSignal

\* C9 as stated: the resolved branch is the first usable chain value, and
\* it is HEAD only if no chain value is usable.
C9_AsStated ==
    DetachedNoSignal =>
        /\ identity.value.branch = ChainBranch
        /\ identity.value.branch = S("HEAD") => \A i \in 1..6 : ~Usable(i)

\* the origin/ prefix goes unless --branch-name was given (as HEAD, here)
WithoutOrigin(b) ==
    IF overrides.branchName.v = <<>> /\ Head(b.v) = "origin/" THEN Str(Tail(b.v)) ELSE b

\* C9: for a detached HEAD without override and provider signal the returned
\* branch is the first non-empty, non-HEAD value of the chain CI-detected PR
\* branch, CI-detected branch, HEAD, GERRIT_BRANCH, GITHUB_REF, CI_BRANCH,
\* less a leading origin/ when --branch-name is not given; it is HEAD only if
\* no chain value is usable or the first usable one is origin/HEAD.
C9_FallbackChain ==
    DetachedNoSignal =>
        /\ identity.value.branch = WithoutOrigin(ChainBranch)
        /\ identity.value.branch = S("HEAD") =>
               \/ \A i \in 1..6 : ~Usable(i)
               \/ ChainBranch = Str(<<"origin/", "HEAD">>)

\* the PR branch of the CI is HEAD, so its branch origin/ci decides over the
\* HEAD of Netlify and loses its prefix
C9_Witness ==
    /\ DetachedNoSignal
    /\ overrides.branchName = EmptyStr
    /\ env["envCi.prBranch"] = S("HEAD")
    /\ env["envCi.branch"] = Str(<<"origin/", "ci">>)
    /\ env.HEAD = S("netlify")
    /\ identity.value.branch = S("ci")

\* C10: a --branch-name other than HEAD is the branch of the returned
\* identity, whatever patchBaseRef, git and the provider variables say.
C10_OverrideWins ==
    (IdentityReturned /\ Truthy(notHead(overrides.branchName))) =>
        identity.value.branch = overrides.branchName

\* CHROMATIC_SHA and CHROMATIC_BRANCH are both set and non-empty
EnvPair ==
    /\ env.CHROMATIC_SHA.t = "string" /\ env.CHROMATIC_SHA.v # <<>>
    /\ env.CHROMATIC_BRANCH.t = "string" /\ env.CHROMATIC_BRANCH.v # <<>>

\* the returned commit is the one of the n-th lookup: the commit found for
\* sha, or the bare { sha } when the lookup failed
CommitOfLookup(n, sha) ==
    /\ Len(git.lookups) >= n
    /\ identity.value.commit = sha
    /\ identity.value.details = git.lookups[n][2]

\* C11 as stated: with the pair set, the returned commit is the one looked
\* up for CHROMATIC_SHA and the returned branch is CHROMATIC_BRANCH, for
\* every CHROMATIC_BRANCH.
C11_AsStated ==
    (IdentityReturned /\ EnvPair) =>
        /\ CommitOfLookup(1, env.CHROMATIC_SHA)
        /\ identity.value.branch = env.CHROMATIC_BRANCH

\* the sha of getCommit(ciCommit): without a CI-detected commit a lookup that
\* resolves gives the commit checked out, one that fails gives no sha
CiCommitSha ==
    IF env["envCi.commit"] = Undef /\ git.lookups[2][2]
    THEN CurrentCommit.sha
    ELSE env["envCi.commit"]

\* C11: with CHROMATIC_SHA and CHROMATIC_BRANCH set, a prior commit and an
\* identity returned, a CHROMATIC_BRANCH other than HEAD is returned as it
\* is (an origin/ prefix included) with the commit looked up for
\* CHROMATIC_SHA, or the bare sha when that lookup fails, whatever the other
\* inputs are; a CHROMATIC_BRANCH of HEAD is resolved again as a detached
\* HEAD, from the CI-detected commit and the fallback chain.
C11_EnvPairPrecedence ==
    (IdentityReturned /\ EnvPair) =>
        /\ git.lookups[1][1] = env.CHROMATIC_SHA
        /\ IF env.CHROMATIC_BRANCH # S("HEAD")
           THEN /\ CommitOfLookup(1, env.CHROMATIC_SHA)
                /\ Len(git.lookups) = 1
                /\ identity.value.branch = env.CHROMATIC_BRANCH
           ELSE /\ CommitOfLookup(2, CiCommitSha)
                /\ identity.value.branch = ChainBranch

\* origin/cbranch on a Travis pull-request build with an override, the
\* lookup of CHROMATIC_SHA failing
C11_Witness ==
    /\ IdentityReturned
    /\ EnvPair
    /\ env.CHROMATIC_BRANCH = Str(<<"origin/", "cbranch">>)
    /\ isTravisPrBuild(env)
    /\ overrides.branchName = EmptyStr
    /\ git.lookups = << <<S("csha"), FALSE>> >>
    /\ identity.value.branch = Str(<<"origin/", "cbranch">>)
    /\ identity.value.commit = S("csha")
    /\ ~identity.value.details

\* the three git queries of lines 350, 351 and 376 went through and a prior
\* commit exists; the call has ended
PriorCommitDone == Done /\ git.hasPreviousCommit = Bool(TRUE)

IsSet(n) == env[n].t = "string" /\ env[n].v # <<>>

TravisPr == ~EnvPair /\ env.TRAVIS_EVENT_TYPE = S("pull_request")
GitHubPr == ~EnvPair /\ ~TravisPr /\ env.GITHUB_EVENT_NAME = S("pull_request")

\* the error the provider variables call for, "" when they call for none
ProviderError ==
    IF TravisPr /\ ~(IsSet("TRAVIS_PULL_REQUEST_SHA") /\ IsSet("TRAVIS_PULL_REQUEST_BRANCH"))
    THEN "missingTravisInfo"
    ELSE IF GitHubPr /\ ~(IsSet("GITHUB_HEAD_REF") /\ IsSet("GITHUB_SHA"))
    THEN "missingGitHubInfo"
    ELSE IF GitHubPr /\ env.GITHUB_BASE_REF = env.GITHUB_HEAD_REF
    THEN "forksUnsupported"
    ELSE ""

\* the Travis error is reached without a log call when the slugs differ
TravisErrorUnlogged ==
    /\ ProviderError = "missingTravisInfo"
    /\ env.TRAVIS_PULL_REQUEST_SLUG # env.TRAVIS_REPO_SLUG

Outcome(r) == [kind |-> r.kind, error |-> r.error, args |-> r.args, value |-> r.value]

\* C13: getOptions on the same flags, environment and manifest comes to the
\* same record or the same error with a log as without one.
C13_LogDoesNotMatter ==
    Resolved =>
        Outcome(getOptions(flags, env, TRUE, packageJson))
            = Outcome(getOptions(flags, env, FALSE, packageJson))

\* the twelve validation rules in the order of the claim, each read off the
\* command line and the environment: TRUE where the input violates the rule
Violated ==
    << ~TokenGiven,
       flags.patchBuild = Str(<<"a", "...">>),
       flags.patchBuild = Str(<<"a", "...", "a">>),
       flags.only = Str(<<"a", "b">>),
       Cardinality(SetSelectors) > 1,
       flags.only # Undef /\ OnlyChangedGiven,
       HasValue(flags.untraced) /\ ~OnlyChangedGiven,
       HasValue(flags.externals) /\ ~OnlyChangedGiven,
       flags.exitOnceUploaded # Undef /\ (flags.doNotStart # Undef \/ flags.storybookUrl # Undef),
       flags.exitOnceUploaded # Undef /\ flags.scriptName # Undef,
       flags.junitReport # Undef /\ flags.exitOnceUploaded # Undef,
       flags.junitReport = Str(<<"out", ".json">>) >>

\* the error of each rule
RuleError ==
    << "missingProjectToken", "invalidPatchBuild", "duplicatePatchBuild", "invalidOnly",
       "invalidSingularOptions", "invalidSingularOptions", "dependentOption",
       "dependentOption", "invalidExitOnceUploaded", "invalidExitOnceUploaded",
       "incompatibleOptions", "invalidReportPath" >>

\* the flags the error of a rule names
RuleArgs(i) ==
    CASE i = 5 -> {FlagOf(n) : n \in SetSelectors}
      [] i = 6 -> {"--only", "--only-changed"}
      [] i = 7 -> {"--untraced", "--only-changed"}
      [] i = 8 -> {"--externals", "--only-changed"}
      [] i = 11 -> {"--junit-report", "--exit-once-uploaded"}
      [] OTHER -> {}

Rules == 1..12
FirstViolated == CHOOSE i \in Rules : Violated[i] /\ \A j \in 1..(i - 1) : ~Violated[j]

\* the error of the earliest violated rule is thrown, with nothing logged
\* for the user; an input that violates no rule gets past validation
EarliestRuleThrown ==
    IF \E i \in Rules : Violated[i]
    THEN /\ result.kind = "thrown"
         /\ result.error = RuleError[FirstViolated]
         /\ {result.args[k] : k \in 1..Len(result.args)} = RuleArgs(FirstViolated)
         /\ \A k \in 1..Len(result.logs) : result.logs[k] # "info"
    ELSE result.error \notin {RuleError[i] : i \in Rules}

\* C14: the validation rules are evaluated in the order missing token,
\* invalid patch build, duplicate patch build, invalid only, several
\* selectors, only with onlyChanged, untraced without onlyChanged, externals
\* without onlyChanged, exitOnceUploaded with noStart, exitOnceUploaded with
\* scriptName, junitReport with exitOnceUploaded, junitReport not .xml; the
\* error thrown is that of the earliest rule the input violates.
C14_RuleOrder == Resolved => EarliestRuleThrown

\* the occurrences of a flag that carry a value, in the order given
IsValue(x) == x # EmptyStr
Values(list) == SelectSeq(list.v, IsValue)

\* the last occurrence of a flag that may be repeated, undefined without one
LastOf(list) == IF Len(list.v) = 0 THEN Undef ELSE list.v[Len(list.v)]

\* a resolved list holds every input value, and each of them once
Deduplicated(resolved, list) ==
    IF Values(list) = <<>>
    THEN resolved = Undef
    ELSE /\ resolved.t = "array"
         /\ {resolved.v[i] : i \in 1..Len(resolved.v)} = {Values(list)[i] : i \in 1..Len(Values(list))}
         /\ \A i, j \in 1..Len(resolved.v) : resolved.v[i] = resolved.v[j] => i = j

\* C15 as stated: untraced and externals resolve to nothing or to the
\* distinct non-empty input values, each once; projectToken, outputDir and
\* storybookBuildDir resolve to their last occurrence.
C15_AsStated ==
    Succeeded =>
        /\ Deduplicated(result.value.untraced, flags.untraced)
        /\ Deduplicated(result.value.externals, flags.externals)
        /\ Len(flags.projectToken.v) > 0 => result.value.projectToken = LastOf(flags.projectToken)
        /\ result.value.outputDir = LastOf(flags.outputDir)
        /\ result.value.storybookBuildDir = LastOf(flags.storybookBuildDir)

\* a resolved list is the input without its empty strings
Filtered(resolved, list) ==
    IF Values(list) = <<>> THEN resolved = Undef ELSE resolved = Arr(Values(list))

\* C15: in a returned record untraced and externals are absent when the
\* flag is missing or holds only empty strings, and otherwise the non-empty
\* input values in the order given, repeated values kept; outputDir and
\* storybookBuildDir are the last occurrence of their flag; projectToken is
\* the last occurrence of --project-token when that is non-empty and
\* CHROMATIC_PROJECT_TOKEN otherwise.
C15_ListNormalization ==
    Succeeded =>
        /\ Filtered(result.value.untraced, flags.untraced)
        /\ Filtered(result.value.externals, flags.externals)
        /\ result.value.outputDir = LastOf(flags.outputDir)
        /\ result.value.storybookBuildDir = LastOf(flags.storybookBuildDir)
        /\ result.value.projectToken =
               IF Len(flags.projectToken.v) > 0 /\ LastOf(flags.projectToken) # EmptyStr
               THEN LastOf(flags.projectToken)
               ELSE env.CHROMATIC_PROJECT_TOKEN

\* --untraced a.js twice with --only-changed: both occurrences are kept
C15_Witness ==
    /\ Succeeded
    /\ flags.untraced = Arr(<<S("a.js"), S("a.js")>>)
    /\ OnlyChangedGiven
    /\ result.value.untraced = Arr(<<S("a.js"), S("a.js")>>)
    /\ result.value.projectToken = S("envtok")

====
